---- MODULE Spec2Model ----
(***************************************************************************)
(* squashdelta: model of src/src/squashdelta.cxx.                          *)
(*                                                                         *)
(* The driver main() is the specification Spec.  The pure parts of the     *)
(* program are checked on drawn inputs under specifications of their own:  *)
(*   SpecDedup    the cross-image deduplication of main()                  *)
(*   SpecExpand   write_unpacked_file, Region A                            *)
(*   SpecInode    the block-list walk of get_blocks                        *)
(*   SpecCollect  get_blocks step by step, up to the expander's assertion  *)
(* Classes that live in headers outside squashdelta.cxx (MMAPFile,         *)
(* SparseFileWriter, the metadata readers, Compressor, murmurhash3) are    *)
(* modelled by their documented contract.                                  *)
(***************************************************************************)
EXTENDS Integers, Sequences, FiniteSets, TLC

VARIABLES
    \* ---- main() ----
    pc,              \* position of main()
    ENABLE_LZO,      \* build-time switches of get_blocks
    ENABLE_LZ4,
    c,               \* Compressor *c: "null", "lzo" or "lz4"
    c_deleted,       \* delete c has run
    block_size,      \* size_t block_size (0 = not yet fixed)
    sb_source,       \* superblock read from the source image
    sb_target,       \* superblock read from the target image
    source_blocks,   \* std::list<compressed_block>
    target_blocks,
    got_source,      \* history: the list get_blocks returned for the source
    got_target,
    codec_log,       \* history: calls made on the codec, in order
    source_temp,     \* contents of the temporary expanded files
    target_temp,
    patch_out,       \* contents of the patch file
    child,           \* the forked diff tool: "none", "running", or how it ended
    diag,            \* the diagnostic printed on std::cerr
    error,           \* history: the failure that ended the run and where it struck
    exit_status,     \* "running", "0", "1" or "SIGABRT"
    \* ---- write_unpacked_file on a byte image ----
    xpc, inf, inpos, cb, outf, prev_offset, xi,
    \* ---- the block-list walk ----
    ipc, inode, walked,
    \* ---- get_blocks step by step ----
    gpc, disk, ir_block_num, dir_blocks, fr_block_num, mir, inodes_read,
    fragments_read, compressed_data_blocks, compressed_metadata_blocks,
    frag_step_blocks, dd_i, dd_j, handed

mvars == <<pc, ENABLE_LZO, ENABLE_LZ4, c, c_deleted, block_size, sb_source,
           sb_target, source_blocks, target_blocks, got_source, got_target,
           codec_log, source_temp, target_temp, patch_out, child, diag, error,
           exit_status>>
xvars == <<xpc, inf, inpos, cb, outf, prev_offset, xi>>
ivars == <<ipc, inode, walked>>
gvars == <<gpc, disk, ir_block_num, dir_blocks, fr_block_num, mir, inodes_read,
           fragments_read, compressed_data_blocks, compressed_metadata_blocks,
           frag_step_blocks, dd_i, dd_j, handed>>
vars == <<mvars, xvars, ivars, gvars>>

----------------------------------------------------------------------------
(* Bounds of the model *)

\* longest block list drawn for the deduplication
MaxBlocks == 3
\* longest block list get_blocks returns in the driver
MaxDriverBlocks == 2

\* longest block list drawn for write_unpacked_file
MaxExpandBlocks == 2
\* length in bytes of the images drawn for write_unpacked_file
ImageLen == 5

\* longest block list of a drawn inode
MaxBlockList == 3

\* inodes, fragments and metadata blocks of the image get_blocks is stepped through
MaxInodes == 2
MaxFragments == 1
MaxMetadataBlocks == 3

\* block lengths and hashes the drawn descriptors take
LenValues == {1, 2}
HashValues == {0, 1}
\* block sizes a superblock may announce
BlockSizes == {1, 2}

----------------------------------------------------------------------------
(* struct compressed_block and the two comparators *)

\* a field no statement has assigned yet
Indeterminate == -1

compressed_block(o, l, u, h) ==
    [offset |-> o, length |-> l, uncompressed_length |-> u, hash |-> h]

sort_by_offset(lhs, rhs) == lhs.offset < rhs.offset

sort_by_len_hash(lhs, rhs) ==
    IF lhs.length = rhs.length
    THEN lhs.hash < rhs.hash
    ELSE lhs.length < rhs.length

\* std::list::sort is a stable merge sort; the stable insertion of x into the
\* sorted list s puts x before the first element that x is less than; later
\* is the set of positions of the elements x is less than.
InsertSorted(s, x, later) ==
    LET at == IF later = {} THEN Len(s) + 1
              ELSE CHOOSE k \in later : \A m \in later : k <= m
    IN  SubSeq(s, 1, at - 1) \o <<x>> \o SubSeq(s, at, Len(s))

RECURSIVE SortByLenHash(_)
SortByLenHash(s) ==
    IF s = <<>> THEN <<>>
    ELSE LET sorted == SortByLenHash(SubSeq(s, 1, Len(s) - 1))
             x == s[Len(s)]
         IN  InsertSorted(sorted, x,
                 {k \in 1..Len(sorted) : sort_by_len_hash(x, sorted[k])})

RECURSIVE SortByOffset(_)
SortByOffset(s) ==
    IF s = <<>> THEN <<>>
    ELSE LET sorted == SortByOffset(SubSeq(s, 1, Len(s) - 1))
             x == s[Len(s)]
         IN  InsertSorted(sorted, x,
                 {k \in 1..Len(sorted) : sort_by_offset(x, sorted[k])})

SameKey(a, b) == a.length = b.length /\ a.hash = b.hash

\* the inner while loops: the first position at or after i whose key differs
\* from that of st (Len + 1 stands for end())
RECURSIVE RunEnd(_, _, _)
RunEnd(l, i, st) ==
    IF i <= Len(l) /\ l[i].length = st.length /\ l[i].hash = st.hash
    THEN RunEnd(l, i + 1, st)
    ELSE i

\* list.erase(first, last)
Erase(l, first, last) == SubSeq(l, 1, first - 1) \o SubSeq(l, last, Len(l))

\* a walk that erases only the matching pair, not the runs
RECURSIVE DedupWalkNoRuns(_, _, _, _)
DedupWalkNoRuns(S, T, i, j) ==
    IF ~(i <= Len(S) /\ j <= Len(T)) THEN <<S, T>>
    ELSE IF S[i].length < T[j].length THEN DedupWalkNoRuns(S, T, i + 1, j)
    ELSE IF T[j].length < S[i].length THEN DedupWalkNoRuns(S, T, i, j + 1)
    ELSE IF S[i].hash < T[j].hash THEN DedupWalkNoRuns(S, T, i + 1, j)
    ELSE IF T[j].hash < S[i].hash THEN DedupWalkNoRuns(S, T, i, j + 1)
    ELSE DedupWalkNoRuns(Erase(S, i, i + 1), Erase(T, j, j + 1), i, j)

\* the two-cursor for loop of main(); i and j are list positions
RECURSIVE DedupWalk(_, _, _, _)
DedupWalk(S, T, i, j) ==
    IF ~(i <= Len(S) /\ j <= Len(T)) THEN <<S, T>>
    ELSE IF S[i].length < T[j].length THEN DedupWalk(S, T, i + 1, j)
    ELSE IF T[j].length < S[i].length THEN DedupWalk(S, T, i, j + 1)
    ELSE IF S[i].hash < T[j].hash THEN DedupWalk(S, T, i + 1, j)
    ELSE IF T[j].hash < S[i].hash THEN DedupWalk(S, T, i, j + 1)
    ELSE LET i_end == RunEnd(S, i, S[i])
             j_end == RunEnd(T, j, T[j])
         IN  DedupWalk(Erase(S, i, i_end), Erase(T, j, j_end), i, j)

\* lists of at most n descriptors; the k-th drawn descriptor sits at offset k
BlockLists(n, lens, hashes) ==
    UNION {[1..m -> lens \X hashes] : m \in 0..n}

\* drawn descriptors are spaced so that their spans stay apart
Spacing == 1 + CHOOSE l \in LenValues : \A m \in LenValues : m <= l

AsBlocks(keys) ==
    [k \in 1..Len(keys) |->
        compressed_block(k * Spacing, keys[k][1], Indeterminate, keys[k][2])]

----------------------------------------------------------------------------
(* The patch format: struct sqdelta_header, struct serialized_compressed_block *)

sqdelta_magic == 1399967412

\* htonl: the four bytes of x, most significant first
htonl(x) ==
    <<(x \div 16777216) % 256, (x \div 65536) % 256, (x \div 256) % 256, x % 256>>

\* htonll: eight bytes, most significant first (model values stay below 2^31)
htonll(x) == <<0, 0, 0, 0>> \o htonl(x)

\* Compressor::get_compression_value(): the SquashFS identifier of the codec
get_compression_value(codec) == IF codec = "lzo" THEN 3 ELSE 5

sqdelta_header(codec) ==
    [kind |-> "header", magic |-> htonl(sqdelta_magic), flags |-> htonl(0),
     compression |-> htonl(get_compression_value(codec)), block_count |-> htonl(0)]

serialized_compressed_block(b) ==
    [kind |-> "block", offset |-> htonll(b.offset), length |-> htonl(b.length),
     uncompressed_length |-> htonl(b.uncompressed_length)]

\* a block list writer that always puts the header last
write_block_list_trailer(h, blocks, at_end) ==
    [k \in 1..Len(blocks) |-> serialized_compressed_block(blocks[k])]
        \o <<[h EXCEPT !.block_count = htonl(Len(blocks))]>>

\* what write_block_list appends to the file it is given
write_block_list(h, blocks, at_end) ==
    LET hh == [h EXCEPT !.block_count = htonl(Len(blocks))]
        records == [k \in 1..Len(blocks) |-> serialized_compressed_block(blocks[k])]
    IN  (IF ~at_end THEN <<hh>> ELSE <<>>) \o records \o (IF at_end THEN <<hh>> ELSE <<>>)

----------------------------------------------------------------------------
(* get_blocks as the driver sees it *)

source_file == "source.sqfs"
target_file == "target.sqfs"

Compressions == {"lzo", "lz4", "gzip"}

SuperBlocks ==
    [s_magic : {"hsqs", "junk"}, version : {<<4, 0>>, <<4, 1>>, <<3, 0>>},
     block_size : BlockSizes, compression : Compressions]

\* a codec switch that builds the codec the superblock names whatever c holds
CodecSwitchReplace(sb, codec, lzo, lz4) ==
    IF sb.compression = "lzo"
    THEN IF lzo THEN [what |-> "none", c |-> "lzo"]
         ELSE [what |-> "LZO compression support disabled at build time", c |-> codec]
    ELSE IF sb.compression = "lz4"
    THEN IF lz4 THEN [what |-> "none", c |-> "lz4"]
         ELSE [what |-> "LZ4 compression support disabled at build time", c |-> codec]
    ELSE [what |-> "Unsupported compression algorithm.", c |-> codec]

\* switch (sb.compression): the codec afterwards and the error thrown, if any
CodecSwitch(sb, codec, lzo, lz4) ==
    IF sb.compression = "lzo"
    THEN IF ~lzo
         THEN [what |-> "LZO compression support disabled at build time", c |-> codec]
         ELSE IF codec = "null" THEN [what |-> "none", c |-> "lzo"]
         ELSE IF codec # "lzo"
         THEN [what |-> "The two files use different compressors", c |-> codec]
         ELSE [what |-> "none", c |-> codec]
    ELSE IF sb.compression = "lz4"
    THEN IF ~lz4
         THEN [what |-> "LZ4 compression support disabled at build time", c |-> codec]
         ELSE IF codec = "null" THEN [what |-> "none", c |-> "lz4"]
         ELSE IF codec # "lz4"
         THEN [what |-> "The two files use different compressors", c |-> codec]
         ELSE [what |-> "none", c |-> codec]
    ELSE [what |-> "Unsupported compression algorithm.", c |-> codec]

\* the head of get_blocks: superblock checks, block size, codec
ReadSuperblock(sb, codec, bs, lzo, lz4) ==
    IF sb.s_magic # "hsqs"
    THEN [what |-> "File is not a valid SquashFS image (no magic).",
          c |-> codec, block_size |-> bs]
    ELSE IF sb.version # <<4, 0>>
    THEN [what |-> "File is not SquashFS 4.0", c |-> codec, block_size |-> bs]
    ELSE IF bs # 0 /\ bs # sb.block_size
    THEN [what |-> "Input files have different block sizes",
          c |-> codec, block_size |-> bs]
    ELSE LET sw == CodecSwitch(sb, codec, lzo, lz4)
         IN  [what |-> sw.what, c |-> sw.c,
              block_size |-> IF bs = 0 THEN sb.block_size ELSE bs]

\* the lists the driver's get_blocks may return
DriverLists ==
    {AsBlocks(keys) : keys \in BlockLists(MaxDriverBlocks, LenValues, {0})}

CodecCall(op, image, phase) == [op |-> op, image |-> image, phase |-> phase]

\* Every way get_blocks(f, c, block_size) can end for one image.  thrown is
\* "none" (it returned), "runtime_error", "IOError", or "assert" (an assert()
\* of get_blocks failed and the process was aborted).
GetBlocksOutcomes(image, codec, bs, lzo, lz4) ==
    LET early(sb) == ReadSuperblock(sb, codec, bs, lzo, lz4)
        created(sb) == IF codec = "null" /\ early(sb).c # "null"
                       THEN <<CodecCall("new", image, "collect")>> ELSE <<>>
        setup(sb) == created(sb) \o <<CodecCall("setup", image, "collect")>>
        walk(sb) == setup(sb) \o <<CodecCall("decompress", image, "collect")>>
        out(sb, thrown, what, blocks, calls) ==
            [sb |-> sb, thrown |-> thrown, what |-> what, c |-> early(sb).c,
             block_size |-> early(sb).block_size, blocks |-> blocks, calls |-> calls]
    IN  {out(sb, "runtime_error", early(sb).what, <<>>, created(sb)) :
            sb \in {s \in SuperBlocks : early(s).what # "none"}}
        \cup
        UNION {
            {out(sb, "none", "none", l, setup(sb)) : l \in DriverLists}
            \cup {out(sb, "none", "none", l, walk(sb)) : l \in DriverLists}
            \cup {out(sb, "runtime_error", "decompression failed", <<>>, walk(sb)),
                  out(sb, "IOError", "EOF while reading file", <<>>, setup(sb)),
                  out(sb, "assert", "none", <<>>, walk(sb))}
            : sb \in {s \in SuperBlocks : early(s).what = "none"}}

----------------------------------------------------------------------------
(* main() *)

NoDiag == [what |-> "none", file |-> "none", errno |-> FALSE]
NoSuperblock ==
    [s_magic |-> "none", version |-> <<0, 0>>, block_size |-> 0, compression |-> "none"]
NoError == [kind |-> "none", stage |-> "none"]
NoChild == [state |-> "none", launched |-> FALSE, status |-> 0]

\* WEXITSTATUS of a wait status (exit code * 256 + terminating signal)
WEXITSTATUS(status) == (status \div 256) % 256

MainInit ==
    /\ pc = "open_source"
    /\ ENABLE_LZO \in BOOLEAN
    /\ ENABLE_LZ4 \in BOOLEAN
    /\ c = "null"
    /\ c_deleted = FALSE
    /\ block_size = 0
    /\ sb_source = NoSuperblock
    /\ sb_target = NoSuperblock
    /\ source_blocks = <<>>
    /\ target_blocks = <<>>
    /\ got_source = <<>>
    /\ got_target = <<>>
    /\ codec_log = <<>>
    /\ source_temp = <<>>
    /\ target_temp = <<>>
    /\ patch_out = <<>>
    /\ child = NoChild
    /\ diag = NoDiag
    /\ error = NoError
    /\ exit_status = "running"

\* a catch handler of main() that prints and returns 1
Return1(what, file, errno, kind) ==
    /\ diag' = [what |-> what, file |-> file, errno |-> errno]
    /\ error' = [kind |-> kind, stage |-> pc]
    /\ exit_status' = "1"
    /\ pc' = "exited"

\* a failed assert(): abort(), no handler runs
Abort ==
    /\ error' = [kind |-> "assert", stage |-> pc]
    /\ exit_status' = "SIGABRT"
    /\ pc' = "exited"
    /\ UNCHANGED diag

\* source_f.open(source_file)
OpenSource ==
    /\ pc = "open_source"
    /\ \E ok \in BOOLEAN :
        IF ok
        THEN /\ pc' = "collect_source"
             /\ UNCHANGED <<diag, error, exit_status>>
        ELSE Return1("Unable to open file", source_file, TRUE, "IOError")
    /\ UNCHANGED <<ENABLE_LZO, ENABLE_LZ4, c, c_deleted, block_size, sb_source,
                   sb_target, source_blocks, target_blocks, got_source, got_target,
                   codec_log, source_temp, target_temp, patch_out, child>>
    /\ UNCHANGED <<xvars, ivars, gvars>>

\* source_blocks = get_blocks(source_f, c, block_size) and its two handlers
CollectSource ==
    /\ pc = "collect_source"
    /\ \E r \in GetBlocksOutcomes("source", c, block_size, ENABLE_LZO, ENABLE_LZ4) :
        /\ sb_source' = r.sb
        /\ c' = r.c
        /\ block_size' = r.block_size
        /\ source_blocks' = r.blocks
        /\ got_source' = r.blocks
        /\ IF r.thrown = "none"
           THEN /\ pc' = "open_target"
                /\ codec_log' = codec_log \o r.calls
                /\ UNCHANGED <<diag, error, exit_status, c_deleted>>
           ELSE IF r.thrown = "assert"
           THEN /\ Abort
                /\ codec_log' = codec_log \o r.calls
                /\ UNCHANGED c_deleted
           ELSE /\ Return1(r.what, source_file, r.thrown = "IOError", r.thrown)
                /\ c_deleted' = (r.c # "null")
                /\ codec_log' = codec_log \o r.calls \o
                      (IF r.c # "null" THEN <<CodecCall("delete", "none", "collect")>>
                       ELSE <<>>)
    /\ UNCHANGED <<ENABLE_LZO, ENABLE_LZ4, sb_target, target_blocks, got_target,
                   source_temp, target_temp, patch_out, child>>
    /\ UNCHANGED <<xvars, ivars, gvars>>

\* target_f.open(target_file)
OpenTarget ==
    /\ pc = "open_target"
    /\ \E ok \in BOOLEAN :
        IF ok
        THEN /\ pc' = "collect_target"
             /\ UNCHANGED <<diag, error, exit_status, c_deleted, codec_log>>
        ELSE /\ Return1("Unable to open file", source_file, TRUE, "IOError")
             /\ c_deleted' = TRUE
             /\ codec_log' = codec_log \o <<CodecCall("delete", "none", "collect")>>
    /\ UNCHANGED <<ENABLE_LZO, ENABLE_LZ4, c, block_size, sb_source,
                   sb_target, source_blocks, target_blocks, got_source, got_target,
                   source_temp, target_temp, patch_out, child>>
    /\ UNCHANGED <<xvars, ivars, gvars>>

\* target_blocks = get_blocks(target_f, c, block_size) and its two handlers
CollectTarget ==
    /\ pc = "collect_target"
    /\ \E r \in GetBlocksOutcomes("target", c, block_size, ENABLE_LZO, ENABLE_LZ4) :
        /\ sb_target' = r.sb
        /\ c' = r.c
        /\ block_size' = r.block_size
        /\ target_blocks' = r.blocks
        /\ got_target' = r.blocks
        /\ IF r.thrown = "none"
           THEN /\ pc' = "dedup"
                /\ codec_log' = codec_log \o r.calls
                /\ UNCHANGED <<diag, error, exit_status, c_deleted>>
           ELSE IF r.thrown = "assert"
           THEN /\ Abort
                /\ codec_log' = codec_log \o r.calls
                /\ UNCHANGED c_deleted
           ELSE /\ Return1(r.what, source_file, r.thrown = "IOError", r.thrown)
                /\ c_deleted' = TRUE
                /\ codec_log' = codec_log \o r.calls \o
                      <<CodecCall("delete", "none", "collect")>>
    /\ UNCHANGED <<ENABLE_LZO, ENABLE_LZ4, sb_source, source_blocks, got_source,
                   source_temp, target_temp, patch_out, child>>
    /\ UNCHANGED <<xvars, ivars, gvars>>

\* both lists sorted by (length, hash), then the two-cursor walk
Dedup ==
    /\ pc = "dedup"
    /\ LET r == DedupWalk(SortByLenHash(source_blocks),
                          SortByLenHash(target_blocks), 1, 1)
       IN  /\ source_blocks' = r[1]
           /\ target_blocks' = r[2]
    /\ pc' = "sort_offset"
    /\ UNCHANGED <<ENABLE_LZO, ENABLE_LZ4, c, c_deleted, block_size, sb_source,
                   sb_target, got_source, got_target, codec_log, source_temp,
                   target_temp, patch_out, child, diag, error, exit_status>>
    /\ UNCHANGED <<xvars, ivars, gvars>>

\* both lists sorted by offset for the expander
SortForExpansion ==
    /\ pc = "sort_offset"
    /\ source_blocks' = SortByOffset(source_blocks)
    /\ target_blocks' = SortByOffset(target_blocks)
    /\ pc' = "open_patch"
    /\ UNCHANGED <<ENABLE_LZO, ENABLE_LZ4, c, c_deleted, block_size, sb_source,
                   sb_target, got_source, got_target, codec_log, source_temp,
                   target_temp, patch_out, child, diag, error, exit_status>>
    /\ UNCHANGED <<xvars, ivars, gvars>>

\* SparseFileWriter patch_out; patch_out.open(patch_file): an IOError leaves
\* through the outer handler, which does not delete the codec
OpenPatch ==
    /\ pc = "open_patch"
    /\ \E ok \in BOOLEAN :
        IF ok
        THEN /\ pc' = "chdir"
             /\ UNCHANGED <<diag, error, exit_status>>
        ELSE Return1("Unable to open file", "none", TRUE, "IOError")
    /\ UNCHANGED <<ENABLE_LZO, ENABLE_LZ4, c, c_deleted, block_size, sb_source,
                   sb_target, source_blocks, target_blocks, got_source, got_target,
                   codec_log, source_temp, target_temp, patch_out, child>>
    /\ UNCHANGED <<xvars, ivars, gvars>>

\* chdir(tmpdir)
Chdir ==
    /\ pc = "chdir"
    /\ \E ok \in BOOLEAN :
        IF ok
        THEN /\ pc' = "expand_source"
             /\ UNCHANGED <<diag, error, exit_status, c_deleted, codec_log>>
        ELSE /\ Return1("Unable to chdir() into temporary directory", "none",
                        FALSE, "chdir")
             /\ c_deleted' = TRUE
             /\ codec_log' = codec_log \o <<CodecCall("delete", "none", "expand")>>
    /\ UNCHANGED <<ENABLE_LZO, ENABLE_LZ4, c, block_size, sb_source,
                   sb_target, source_blocks, target_blocks, got_source, got_target,
                   source_temp, target_temp, patch_out, child>>
    /\ UNCHANGED <<xvars, ivars, gvars>>

\* struct sqdelta_header dh of main()
dh == sqdelta_header(c)

\* assert((*i).offset >= prev_offset) along the whole list
RECURSIVE ExpanderAssertHolds(_, _, _)
ExpanderAssertHolds(blocks, k, prev) ==
    IF k > Len(blocks) THEN TRUE
    ELSE /\ blocks[k].offset >= prev
         /\ ExpanderAssertHolds(blocks, k + 1, blocks[k].offset + blocks[k].length)

\* an expansion that starts on the codec as the previous run left it
ExpandNoReset(image) == <<>>

\* c->reset() at the head of each expansion
ExpandReset(image) == <<CodecCall("reset", image, "expand")>>

\* Every way the try block "reset, open the temporary file, write_unpacked_file,
\* write_block_list" can end for one image with the list blocks.  Region A is
\* one item, Region B one item per decompressed payload.
ExpandOutcomes(image, blocks, bs, header) ==
    LET reset == ExpandReset(image)
        dec == IF blocks = <<>> THEN <<>>
               ELSE <<CodecCall("decompress", image, "expand")>>
        regionA == <<[kind |-> "regionA"]>>
        out(thrown, what, bl, file, calls) ==
            [thrown |-> thrown, what |-> what, blocks |-> bl, file |-> file,
             calls |-> calls]
    IN  IF ~ExpanderAssertHolds(blocks, 1, 0)
        THEN {out("assert", "none", blocks, <<>>, reset)}
        ELSE {out("IOError", "Unable to create temporary file", blocks, <<>>, reset)}
             \cup
             (IF blocks = <<>> THEN {}
              ELSE {out("runtime_error", "decompression failed", blocks, regionA,
                        reset \o dec)})
             \cup
             {LET done == [k \in 1..Len(blocks) |->
                              [blocks[k] EXCEPT !.uncompressed_length = unc[k]]]
              IN  out("none", "none", done,
                      regionA
                      \o [k \in 1..Len(blocks) |->
                             [kind |-> "payload", length |-> unc[k]]]
                      \o write_block_list(header, done, TRUE),
                      reset \o dec)
              : unc \in [1..Len(blocks) -> 1..bs]}

\* the try block that writes the expanded source file, and its handlers
ExpandSource ==
    /\ pc = "expand_source"
    /\ \E r \in ExpandOutcomes("source", source_blocks, block_size, dh) :
        /\ source_blocks' = r.blocks
        /\ source_temp' = r.file
        /\ IF r.thrown = "none"
           THEN /\ pc' = "expand_target"
                /\ codec_log' = codec_log \o r.calls
                /\ UNCHANGED <<diag, error, exit_status, c_deleted>>
           ELSE IF r.thrown = "assert"
           THEN /\ Abort
                /\ codec_log' = codec_log \o r.calls
                /\ UNCHANGED c_deleted
           ELSE /\ Return1(r.what, "temporary file for source",
                           r.thrown = "IOError", r.thrown)
                /\ c_deleted' = TRUE
                /\ codec_log' = codec_log \o r.calls \o
                      <<CodecCall("delete", "none", "expand")>>
    /\ UNCHANGED <<ENABLE_LZO, ENABLE_LZ4, c, block_size, sb_source, sb_target,
                   target_blocks, got_source, got_target, target_temp, patch_out,
                   child>>
    /\ UNCHANGED <<xvars, ivars, gvars>>

\* the try block that writes the expanded target file, and its handlers
ExpandTarget ==
    /\ pc = "expand_target"
    /\ \E r \in ExpandOutcomes("target", target_blocks, block_size, dh) :
        /\ target_blocks' = r.blocks
        /\ target_temp' = r.file
        /\ IF r.thrown = "none"
           THEN /\ pc' = "delete_codec"
                /\ codec_log' = codec_log \o r.calls
                /\ UNCHANGED <<diag, error, exit_status, c_deleted>>
           ELSE IF r.thrown = "assert"
           THEN /\ Abort
                /\ codec_log' = codec_log \o r.calls
                /\ UNCHANGED c_deleted
           ELSE /\ Return1(r.what, "temporary file for target",
                           r.thrown = "IOError", r.thrown)
                /\ c_deleted' = TRUE
                /\ codec_log' = codec_log \o r.calls \o
                      <<CodecCall("delete", "none", "expand")>>
    /\ UNCHANGED <<ENABLE_LZO, ENABLE_LZ4, c, block_size, sb_source, sb_target,
                   source_blocks, got_source, got_target, source_temp, patch_out,
                   child>>
    /\ UNCHANGED <<xvars, ivars, gvars>>

\* delete c; write_block_list(patch_out, dh, source_blocks, false)
WritePatchIndex ==
    /\ pc = "delete_codec"
    /\ c_deleted' = TRUE
    /\ codec_log' = codec_log \o <<CodecCall("delete", "none", "expand")>>
    /\ \E ok \in BOOLEAN :
        IF ok
        THEN /\ patch_out' = patch_out \o write_block_list(dh, source_blocks, FALSE)
             /\ pc' = "fork"
             /\ UNCHANGED <<diag, error, exit_status>>
        ELSE /\ Return1("Unable to write to file", "none", TRUE, "IOError")
             /\ UNCHANGED patch_out
    /\ UNCHANGED <<ENABLE_LZO, ENABLE_LZ4, c, block_size, sb_source, sb_target,
                   source_blocks, target_blocks, got_source, got_target,
                   source_temp, target_temp, child>>
    /\ UNCHANGED <<xvars, ivars, gvars>>

\* pid_t child = fork()
Fork ==
    /\ pc = "fork"
    /\ \E ok \in BOOLEAN :
        IF ok
        THEN /\ child' = [state |-> "running", launched |-> FALSE, status |-> 0]
             /\ pc' = "waitpid"
             /\ UNCHANGED <<diag, error, exit_status>>
        ELSE /\ Return1("fork() failed", "none", TRUE, "IOError")
             /\ UNCHANGED child
    /\ UNCHANGED <<ENABLE_LZO, ENABLE_LZ4, c, c_deleted, block_size, sb_source,
                   sb_target, source_blocks, target_blocks, got_source, got_target,
                   codec_log, source_temp, target_temp, patch_out>>
    /\ UNCHANGED <<xvars, ivars, gvars>>

\* How the child can end: close(1), dup2() or execlp() fails and the child
\* returns 1; xdelta3 runs and exits with a code; xdelta3 is killed by a signal.
\* status is the wait status: exit code * 256 + terminating signal.
ChildEndings ==
    {[state |-> "ended", launched |-> FALSE, status |-> 256],
     [state |-> "ended", launched |-> TRUE, status |-> 0],
     [state |-> "ended", launched |-> TRUE, status |-> 256],
     [state |-> "ended", launched |-> TRUE, status |-> 9]}

\* the child branch: stdout redirected to the patch file, execlp("xdelta3", ...)
ChildRuns ==
    /\ pc = "waitpid"
    /\ child.state = "running"
    /\ \E e \in ChildEndings :
        /\ child' = e
        /\ patch_out' = IF e.launched
                        THEN patch_out \o <<[kind |-> "delta", status |-> e.status]>>
                        ELSE patch_out
    /\ UNCHANGED <<pc, ENABLE_LZO, ENABLE_LZ4, c, c_deleted, block_size, sb_source,
                   sb_target, source_blocks, target_blocks, got_source, got_target,
                   codec_log, source_temp, target_temp, diag, error, exit_status>>
    /\ UNCHANGED <<xvars, ivars, gvars>>

\* the parent branch: waitpid(child, &status, 0), the WEXITSTATUS test, the
\* three close() calls and return 0
WaitChild ==
    /\ pc = "waitpid"
    /\ child.state = "ended"
    /\ IF WEXITSTATUS(child.status) # 0
       THEN Return1("Child process terminate with error status", "none", FALSE,
                    "child")
       ELSE /\ exit_status' = "0"
            /\ pc' = "exited"
            /\ UNCHANGED <<diag, error>>
    /\ UNCHANGED <<ENABLE_LZO, ENABLE_LZ4, c, c_deleted, block_size, sb_source,
                   sb_target, source_blocks, target_blocks, got_source, got_target,
                   codec_log, source_temp, target_temp, patch_out, child>>
    /\ UNCHANGED <<xvars, ivars, gvars>>

NoDisk == [inode_table_start |-> 0, blocks |-> <<>>]

IdleX == xpc = "idle" /\ inf = <<>> /\ inpos = 0 /\ cb = <<>> /\ outf = <<>>
         /\ prev_offset = 0 /\ xi = 0
IdleI == ipc = "idle" /\ inode = <<>> /\ walked = <<>>
IdleG == gpc = "idle" /\ disk = NoDisk /\ ir_block_num = 0 /\ dir_blocks = 0
         /\ fr_block_num = 0 /\ mir = 0 /\ inodes_read = 0 /\ fragments_read = 0
         /\ compressed_data_blocks = <<>> /\ compressed_metadata_blocks = <<>>
         /\ frag_step_blocks = <<>> /\ dd_i = 0 /\ dd_j = 0 /\ handed = <<>>

Init == MainInit /\ IdleX /\ IdleI /\ IdleG

Next ==
    \/ OpenSource
    \/ CollectSource
    \/ OpenTarget
    \/ CollectTarget
    \/ Dedup
    \/ SortForExpansion
    \/ OpenPatch
    \/ Chdir
    \/ ExpandSource
    \/ ExpandTarget
    \/ WritePatchIndex
    \/ Fork
    \/ ChildRuns
    \/ WaitChild

Spec == Init /\ [][Next]_vars

----------------------------------------------------------------------------
(* Claims about main() *)

\* the number a big-endian byte sequence stands for
RECURSIVE FromBigEndian(_)
FromBigEndian(bytes) ==
    IF bytes = <<>> THEN 0
    ELSE 256 * FromBigEndian(SubSeq(bytes, 1, Len(bytes) - 1)) + bytes[Len(bytes)]

IsRecordOf(item, b) ==
    /\ item.kind = "block"
    /\ Len(item.offset) = 8 /\ FromBigEndian(item.offset) = b.offset
    /\ Len(item.length) = 4 /\ FromBigEndian(item.length) = b.length
    /\ Len(item.uncompressed_length) = 4
    /\ FromBigEndian(item.uncompressed_length) = b.uncompressed_length

IsHeaderOf(item, n) ==
    /\ item.kind = "header"
    /\ FromBigEndian(item.magic) = sqdelta_magic
    /\ FromBigEndian(item.block_count) = n

\* an expanded file with Region A, Region B and the trailing index of blocks
TempComplete(file, blocks) ==
    LET n == Len(blocks)
    IN  /\ Len(file) = 2 * n + 2
        /\ file[1].kind = "regionA"
        /\ \A k \in 1..n :
              /\ file[1 + k].kind = "payload"
              /\ file[1 + k].length = blocks[k].uncompressed_length
              /\ IsRecordOf(file[1 + n + k], blocks[k])
        /\ IsHeaderOf(file[2 * n + 2], n)

\* the patch file starts with the header and the records of source_blocks, each
\* with the uncompressed length the expansion stored; only delta bytes follow
PatchIndexWritten ==
    LET n == Len(source_blocks)
    IN  /\ Len(patch_out) >= n + 1
        /\ IsHeaderOf(patch_out[1], n)
        /\ \A k \in 1..n :
              /\ source_blocks[k].uncompressed_length \in 1..block_size
              /\ IsRecordOf(patch_out[1 + k], source_blocks[k])
        /\ \A k \in (n + 2)..Len(patch_out) : patch_out[k].kind = "delta"

\* the descriptors of the source the target has no (length, hash) match for
SourceAfterDedup ==
    {got_source[k].offset : k \in {m \in 1..Len(got_source) :
        \A t \in 1..Len(got_target) : ~SameKey(got_source[m], got_target[t])}}

\* C4: the diff tool is started only after both expanded files are complete
\* (Region A, Region B, trailing index) and the patch file holds the header
\* followed by the records of the source's post-dedup blocks; the records are
\* written only after the expansion stored every uncompressed length, and the
\* diff tool's output follows header + block_count records.
C4_DiffAfterOutputs ==
    /\ child.state # "none" =>
          /\ TempComplete(source_temp, source_blocks)
          /\ TempComplete(target_temp, target_blocks)
          /\ PatchIndexWritten
    /\ patch_out # <<>> =>
          /\ PatchIndexWritten
          /\ {source_blocks[k].offset : k \in 1..Len(source_blocks)} = SourceAfterDedup

C4_Witness ==
    /\ child.state = "ended" /\ child.launched
    /\ patch_out[Len(patch_out)].kind = "delta"
    /\ Len(source_blocks) >= 1
    /\ Len(got_source) > Len(source_blocks)

DiffSucceeded == child.state = "ended" /\ child.launched /\ child.status = 0

\* C5: main() exits with status 0 only when both images were collected, both
\* expanded files and the patch header + index were written and the diff tool
\* terminated successfully; every fatal error (a thrown error, a failed
\* assertion on a malformed image, a diff tool that was not launched or did not
\* exit with status 0) makes the process exit with status 1.
C5_ExitStatus ==
    pc = "exited" =>
        /\ exit_status = "0" =>
              /\ TempComplete(source_temp, source_blocks)
              /\ TempComplete(target_temp, target_blocks)
              /\ PatchIndexWritten
              /\ DiffSucceeded
        /\ (error.kind # "none" \/ (child.state = "ended" /\ ~DiffSucceeded))
              => exit_status = "1"

TargetCollected == sb_target # NoSuperblock

\* C6 as stated: whenever the second image's compression identifier differs
\* from the first's, get_blocks on the second image fails with the
\* codec-mismatch error and the run ends with exit status 1.  (Stated here for
\* second images whose magic, version and block size are accepted, the case
\* most favourable to the claim.)
C6_AlwaysMismatchError ==
    (/\ TargetCollected
     /\ sb_target.compression # sb_source.compression
     /\ sb_target.s_magic = "hsqs"
     /\ sb_target.version = <<4, 0>>
     /\ sb_target.block_size = sb_source.block_size) =>
        /\ diag.what = "The two files use different compressors"
        /\ exit_status = "1"

CodecEnabled(id) == (id = "lzo" /\ ENABLE_LZO) \/ (id = "lz4" /\ ENABLE_LZ4)

\* C6 amended: whenever the second image's compression identifier differs from
\* the first's, get_blocks on the second image throws and the run ends with
\* exit status 1; the error is the codec-mismatch error when the second
\* superblock passes the magic, version and block-size checks and names a codec
\* the build supports, and the error of the first failing check otherwise; the
\* codec created for the first image is never replaced by one of another kind.
C6_CodecAgreement ==
    /\ (TargetCollected /\ sb_target.compression # sb_source.compression) =>
          /\ exit_status = "1"
          /\ error = [kind |-> "runtime_error", stage |-> "collect_target"]
          /\ got_target = <<>>
          /\ (/\ sb_target.s_magic = "hsqs"
              /\ sb_target.version = <<4, 0>>
              /\ sb_target.block_size = sb_source.block_size
              /\ CodecEnabled(sb_target.compression))
                 <=> diag.what = "The two files use different compressors"
    /\ c # "null" => c = sb_source.compression

C6_Witness ==
    /\ TargetCollected
    /\ sb_target.compression # sb_source.compression
    /\ diag.what = "The two files use different compressors"
    /\ c = sb_source.compression

IsUse(e) == e.op \in {"setup", "decompress"}

\* positions i < j of the log that are consecutive uses of the codec
ConsecutiveUses(i, j) ==
    /\ i < j
    /\ IsUse(codec_log[i]) /\ IsUse(codec_log[j])
    /\ \A k \in (i + 1)..(j - 1) : ~IsUse(codec_log[k])

ResetBetween(i, j) == \E k \in (i + 1)..(j - 1) : codec_log[k].op = "reset"

BothExpanded ==
    /\ TempComplete(source_temp, source_blocks)
    /\ TempComplete(target_temp, target_blocks)

C8_DiagnosticNamesFile ==
    error.kind \in {"IOError", "runtime_error"} =>
        /\ error.stage \in {"open_source", "collect_source"} => diag.file = source_file
        /\ error.stage \in {"open_target", "collect_target"} => diag.file = target_file

----------------------------------------------------------------------------
(* The cross-image deduplication on drawn lists *)

DedupInputs ==
    {AsBlocks(keys) : keys \in BlockLists(MaxBlocks, LenValues, HashValues)}

\* main() as it stands before line 498, for any two collected lists
DedupInit ==
    /\ pc = "dedup"
    /\ ENABLE_LZO = TRUE
    /\ ENABLE_LZ4 = TRUE
    /\ c = "lzo"
    /\ c_deleted = FALSE
    /\ block_size \in BlockSizes
    /\ sb_source = [s_magic |-> "hsqs", version |-> <<4, 0>>,
                    block_size |-> block_size, compression |-> "lzo"]
    /\ sb_target = sb_source
    /\ source_blocks \in DedupInputs
    /\ target_blocks \in DedupInputs
    /\ got_source = source_blocks
    /\ got_target = target_blocks
    /\ codec_log = <<CodecCall("new", "source", "collect"),
                     CodecCall("setup", "source", "collect"),
                     CodecCall("setup", "target", "collect")>>
    /\ source_temp = <<>>
    /\ target_temp = <<>>
    /\ patch_out = <<>>
    /\ child = NoChild
    /\ diag = NoDiag
    /\ error = NoError
    /\ exit_status = "running"
    /\ IdleX /\ IdleI /\ IdleG

DedupNext == Dedup \/ SortForExpansion

SpecDedup == DedupInit /\ [][DedupNext]_vars

Count(l, b) == Cardinality({k \in 1..Len(l) : l[k] = b})

KeyOccursIn(l, b) == \E k \in 1..Len(l) : SameKey(l[k], b)

\* what is left of list mine after the deduplication against list other
SurvivorsAre(left, mine, other) ==
    \A b \in {mine[k] : k \in 1..Len(mine)} \cup {left[k] : k \in 1..Len(left)} :
        Count(left, b) = IF KeyOccursIn(other, b) THEN 0 ELSE Count(mine, b)

\* C1: after the sort by (length, hash) and the two-cursor walk a descriptor of
\* the source survives iff no descriptor of the original target has the same
\* (length, hash), and symmetrically; every descriptor whose key occurs in both
\* lists is removed from both, whatever its offset and however often the key
\* occurs, and no other descriptor is removed.
C1_CrossDedup ==
    pc # "dedup" =>
        /\ SurvivorsAre(source_blocks, got_source, got_target)
        /\ SurvivorsAre(target_blocks, got_target, got_source)

\* a key twice in the source and once in the target, at another offset, is
\* removed from both while other descriptors of both lists survive
C1_Witness ==
    /\ pc = "sort_offset"
    /\ source_blocks # <<>> /\ target_blocks # <<>>
    /\ \E i, j \in 1..Len(got_source) : \E t \in 1..Len(got_target) :
          /\ i < j
          /\ SameKey(got_source[i], got_source[j])
          /\ SameKey(got_source[i], got_target[t])
          /\ got_target[t].offset # got_source[i].offset
          /\ got_target[t].offset # got_source[j].offset
          /\ Count(got_target, got_target[t]) = 1
          /\ \A u \in 1..Len(got_target) :
                SameKey(got_target[u], got_target[t]) => u = t

----------------------------------------------------------------------------
(* write_unpacked_file on a byte image *)

\* MMAPFile::read_array<char>(n) at cursor pos: the bytes, or <<"EOF">> when
\* the span leaves the file (a negative n is a size_t that wrapped)
CanRead(file, pos, n) == n >= 0 /\ pos + n <= Len(file)
read_array(file, pos, n) == SubSeq(file, pos + 1, pos + n)

\* SparseFileWriter::write_sparse(n): a hole of n bytes, which reads back as zeros
write_sparse(n) == [k \in 1..n |-> 0]

\* Compressor::decompress: the payload produced for block b, of the drawn size
decompress(file, b, size) == [k \in 1..size |-> file[b.offset + 1]]

\* prev_offset = (*i).offset + (*i).length
PrevOffsetAfter(b) == b.offset + b.length

\* a copy that runs through the block instead of leaving a hole for it
CopyThroughBlock(file, pos, b, pre_length) ==
    read_array(file, pos, pre_length + b.length)

\* what one turn of the first loop appends: the pre_length bytes before the
\* block, copied, then a hole as long as the block
CopyUpToBlock(file, pos, b, pre_length) ==
    read_array(file, pos, pre_length) \o write_sparse(b.length)

ExpandImages ==
    {[p \in 1..ImageLen |-> p], [p \in 1..ImageLen |-> p % 2],
     [p \in 1..ImageLen |-> 1]}

\* descriptors whose bytes get_blocks has read from the image
ExpandSpans ==
    {b \in {compressed_block(o, l, Indeterminate, 0) :
                o \in 0..ImageLen - 1, l \in LenValues} :
        b.offset + b.length <= ImageLen}

ExpandInit ==
    /\ xpc = "regionA"
    /\ inf \in ExpandImages
    /\ cb \in UNION {[1..m -> ExpandSpans] : m \in 0..MaxExpandBlocks}
    /\ inpos = 0
    /\ outf = <<>>
    /\ prev_offset = 0
    /\ xi = 1
    /\ pc = "expand_source" /\ ENABLE_LZO = TRUE /\ ENABLE_LZ4 = TRUE /\ c = "lzo"
    /\ c_deleted = FALSE /\ block_size = 2
    /\ sb_source = NoSuperblock /\ sb_target = NoSuperblock
    /\ source_blocks = <<>> /\ target_blocks = <<>>
    /\ got_source = <<>> /\ got_target = <<>> /\ codec_log = <<>>
    /\ source_temp = <<>> /\ target_temp = <<>> /\ patch_out = <<>>
    /\ child = NoChild /\ diag = NoDiag /\ error = NoError
    /\ exit_status = "running"
    /\ IdleI /\ IdleG

\* one turn of the first for loop: the assertion, the copy of the bytes before
\* the block, the seek over the block and the hole
ExpandBlock ==
    /\ xpc = "regionA"
    /\ xi <= Len(cb)
    /\ LET b == cb[xi]
           pre_length == b.offset - prev_offset
       IN  IF ~(b.offset >= prev_offset)
           THEN /\ xpc' = "assert"
                /\ UNCHANGED <<inpos, outf, prev_offset, xi>>
           ELSE IF ~CanRead(inf, inpos, pre_length)
                   \/ inpos + pre_length + b.length > Len(inf)
           THEN /\ xpc' = "thrown"
                /\ prev_offset' = PrevOffsetAfter(b)
                /\ UNCHANGED <<inpos, outf, xi>>
           ELSE /\ prev_offset' = PrevOffsetAfter(b)
                /\ outf' = outf \o CopyUpToBlock(inf, inpos, b, pre_length)
                /\ inpos' = inpos + pre_length + b.length
                /\ xi' = xi + 1
                /\ xpc' = "regionA"
    /\ UNCHANGED <<inf, cb>>
    /\ UNCHANGED <<mvars, ivars, gvars>>

\* "write the last block": the tail after the last descriptor
ExpandTail ==
    /\ xpc = "regionA"
    /\ xi > Len(cb)
    /\ LET n == Len(inf) - prev_offset
       IN  IF ~CanRead(inf, inpos, n)
           THEN /\ xpc' = "thrown"
                /\ UNCHANGED <<inpos, outf>>
           ELSE /\ outf' = outf \o read_array(inf, inpos, n)
                /\ inpos' = inpos + n
                /\ xpc' = "regionB"
    /\ UNCHANGED <<inf, cb, prev_offset, xi>>
    /\ UNCHANGED <<mvars, ivars, gvars>>

\* the second for loop: every block decompressed into buf and appended, its
\* size stored in uncompressed_length
ExpandPayloads ==
    /\ xpc = "regionB"
    /\ \E size \in [1..Len(cb) -> 1..block_size] :
        /\ cb' = [k \in 1..Len(cb) |-> [cb[k] EXCEPT !.uncompressed_length = size[k]]]
        /\ outf' = outf \o
              [k \in 1..Len(cb) |-> decompress(inf, cb[k], size[k])]
    /\ inpos' = IF cb = <<>> THEN inpos
                ELSE cb[Len(cb)].offset + cb[Len(cb)].length
    /\ xpc' = "returned"
    /\ UNCHANGED <<inf, prev_offset, xi>>
    /\ UNCHANGED <<mvars, ivars, gvars>>

ExpandNext == ExpandBlock \/ ExpandTail \/ ExpandPayloads

SpecExpand == ExpandInit /\ [][ExpandNext]_vars

InBlock(p, b) == b.offset <= p /\ p < b.offset + b.length

\* the image with the bytes of every listed descriptor replaced by zeros
Hollowed(file, blocks) ==
    [p \in 1..Len(file) |->
        IF \E k \in 1..Len(blocks) : InBlock(p - 1, blocks[k]) THEN 0 ELSE file[p]]

\* C2: once write_unpacked_file has written Region A, the first getlen() bytes
\* of the expanded file equal the image with exactly the bytes in
\* [offset, offset+length) of every listed descriptor replaced by zeros and
\* every other byte, the tail included, unchanged at its position.
C2_RegionA ==
    xpc \in {"regionB", "returned"} =>
        /\ Len(outf) >= Len(inf)
        /\ SubSeq(outf, 1, Len(inf)) = Hollowed(inf, cb)

\* two blocks with bytes before, between and after them
C2_Witness ==
    /\ xpc = "returned"
    /\ Len(cb) = 2
    /\ cb[1].offset > 0
    /\ cb[2].offset > cb[1].offset + cb[1].length
    /\ cb[2].offset + cb[2].length < Len(inf)
    /\ \A p \in 1..Len(inf) : inf[p] # 0

----------------------------------------------------------------------------
(* The block-list walk of get_blocks *)

\* squashfs::block_size::uncompressed, the flag bit of a block-list entry.
\* Entries are le32 with the flag as top bit; the model keeps the layout on
\* entries of three bits.
uncompressed == 4

BlockListEntries == 0..(2 * uncompressed - 1)

\* block_list[j] & squashfs::block_size::uncompressed
IsUncompressed(entry) == (entry \div uncompressed) % 2 = 1

\* block_list[j] & ~squashfs::block_size::uncompressed
WithoutFlag(entry) == IF IsUncompressed(entry) THEN entry - uncompressed ELSE entry

\* a walk that does not seek over uncompressed blocks
RECURSIVE WalkWithoutSeek(_, _, _, _)
WalkWithoutSeek(block_list, j, pos, acc) ==
    IF j > Len(block_list) THEN [blocks |-> acc, pos |-> pos, aborted |-> FALSE]
    ELSE IF IsUncompressed(block_list[j])
    THEN IF WithoutFlag(block_list[j]) = 0
         THEN [blocks |-> acc, pos |-> pos, aborted |-> TRUE]
         ELSE WalkWithoutSeek(block_list, j + 1, pos, acc)
    ELSE IF block_list[j] # 0
    THEN WalkWithoutSeek(block_list, j + 1, pos + block_list[j],
             Append(acc, compressed_block(pos, block_list[j], Indeterminate,
                                          Indeterminate)))
    ELSE WalkWithoutSeek(block_list, j + 1, pos, acc)

\* for (j = 0; j < block_count; ++j): the descriptors pushed to
\* compressed_data_blocks, the final pos, and whether assert(len != 0) failed
RECURSIVE WalkBlockList(_, _, _, _)
WalkBlockList(block_list, j, pos, acc) ==
    IF j > Len(block_list) THEN [blocks |-> acc, pos |-> pos, aborted |-> FALSE]
    ELSE IF IsUncompressed(block_list[j])
    THEN LET len == WithoutFlag(block_list[j])
         IN  IF len = 0
             THEN [blocks |-> acc, pos |-> pos, aborted |-> TRUE]
             ELSE WalkBlockList(block_list, j + 1, pos + len, acc)
    ELSE IF block_list[j] # 0
    THEN WalkBlockList(block_list, j + 1, pos + block_list[j],
             Append(acc, compressed_block(pos, block_list[j], Indeterminate,
                                          Indeterminate)))
    ELSE WalkBlockList(block_list, j + 1, pos, acc)

\* the body of the inode loop for one inode
ReadInode(in) ==
    IF in.inode_type \in {"reg", "lreg"}
    THEN WalkBlockList(in.block_list, 1, in.start_block, <<>>)
    ELSE [blocks |-> <<>>, pos |-> 0, aborted |-> FALSE]

InodesWith(types, starts, n) ==
    [inode_type : types, start_block : starts,
     block_list : UNION {[1..m -> BlockListEntries] : m \in 0..n}]

InodeInit ==
    /\ ipc = "read"
    /\ inode \in InodesWith({"reg", "lreg", "dir"}, {0, 5}, MaxBlockList)
    /\ walked = <<>>
    /\ MainInit /\ ENABLE_LZO /\ ENABLE_LZ4
    /\ IdleX /\ IdleG

\* union squashfs::inode::inode &in = ir.read(), and the walk of its block list
WalkInode ==
    /\ ipc = "read"
    /\ LET r == ReadInode(inode)
       IN  /\ walked' = r.blocks
           /\ ipc' = IF r.aborted THEN "assert" ELSE "walked"
    /\ UNCHANGED inode
    /\ UNCHANGED <<mvars, xvars, gvars>>

InodeNext == WalkInode

SpecInode == InodeInit /\ [][InodeNext]_vars

\* the bytes an entry occupies on disk
OnDiskLength(entry) == WithoutFlag(entry)

RECURSIVE SumOnDisk(_, _)
SumOnDisk(block_list, n) ==
    IF n = 0 THEN 0 ELSE SumOnDisk(block_list, n - 1) + OnDiskLength(block_list[n])

IsCompressedEntry(entry) == entry # 0 /\ ~IsUncompressed(entry)

\* the positions of the list that hold compressed entries, in list order
RECURSIVE CompressedPositions(_, _)
CompressedPositions(block_list, n) ==
    IF n = 0 THEN <<>>
    ELSE IF IsCompressedEntry(block_list[n])
    THEN Append(CompressedPositions(block_list, n - 1), n)
    ELSE CompressedPositions(block_list, n - 1)

\* C10: for a regular or extended regular inode the recorded descriptors are
\* exactly the nonzero entries with the uncompressed bit clear, in list order,
\* each with length equal to the entry and offset equal to start_block plus the
\* on-disk lengths of all earlier entries (the entry for a compressed one, its
\* low bits for an uncompressed one, 0 for a sparse one); other inodes record
\* nothing.
C10_BlockListWalk ==
    ipc = "walked" =>
        LET at == IF inode.inode_type \in {"reg", "lreg"}
                  THEN CompressedPositions(inode.block_list, Len(inode.block_list))
                  ELSE <<>>
        IN  /\ Len(walked) = Len(at)
            /\ \A k \in 1..Len(at) :
                  /\ walked[k].length = inode.block_list[at[k]]
                  /\ walked[k].offset =
                        inode.start_block + SumOnDisk(inode.block_list, at[k] - 1)

\* a list with a compressed, an uncompressed and a sparse entry before its
\* last compressed entry
C10_Witness ==
    /\ ipc = "walked"
    /\ inode.inode_type = "lreg"
    /\ inode.start_block > 0
    /\ Len(inode.block_list) = 3
    /\ IsUncompressed(inode.block_list[1])
    /\ inode.block_list[2] = 0
    /\ IsCompressedEntry(inode.block_list[3])
    /\ Len(walked) = 1

----------------------------------------------------------------------------
(* get_blocks step by step *)

\* the 16-bit length header in front of every metadata block
MetadataHeaderLen == 2

\* murmurhash3(data, length, 0) of the image bytes at [offset, offset + length).
\* The image's bytes are not modelled; the hash is a function of the span.
murmurhash3(offset, length) == (offset + length) % 2

\* The metadata area: blocks laid out back to back from inode_table_start, the
\* inode table first, then the directory table, then the fragment table.
MetadataAreas ==
    [inode_table_start : {16},
     blocks : UNION {[1..m -> [length : {1, 2}, compressed : BOOLEAN]] :
                        m \in 1..MaxMetadataBlocks}]

\* the offset of the header of the k-th block of the area
RECURSIVE HeaderOffset(_, _)
HeaderOffset(area, k) ==
    IF k = 1 THEN area.inode_table_start
    ELSE HeaderOffset(area, k - 1) + MetadataHeaderLen + area.blocks[k - 1].length

\* MetadataBlockReader::read_input_block on the k-th block: pos, length, compressed
read_input_block(area, k) ==
    [pos |-> HeaderOffset(area, k) + MetadataHeaderLen,
     length |-> area.blocks[k].length,
     compressed |-> area.blocks[k].compressed]

\* one of the two "record ... blocks" loops: n blocks read from reader position
\* from, the compressed ones recorded with their hash
RECURSIVE HashMetadataBlocks(_, _, _)
HashMetadataBlocks(area, from, n) ==
    IF n = 0 THEN <<>>
    ELSE LET r == read_input_block(area, from + n - 1)
         IN  HashMetadataBlocks(area, from, n - 1) \o
             (IF r.compressed
              THEN <<compressed_block(r.pos, r.length, Indeterminate,
                                      murmurhash3(r.pos, r.length))>>
              ELSE <<>>)

\* the position the fragment loop reads from: the loop calls
\* mir.read_input_block, so it goes on where the inode loop stopped
FragmentLoopStart(inode_reader, fragment_table) == inode_reader

CollectInodes == InodesWith({"reg", "dir"}, {0, 1}, 1)

\* struct squashfs::fragment_entry: start_block and size
FragmentEntries == [start_block : {0, 3}, size : {0, 2, uncompressed + 1}]

CollectInit ==
    /\ gpc = "superblock"
    /\ disk \in MetadataAreas
    /\ ir_block_num = 0 /\ dir_blocks = 0 /\ fr_block_num = 0
    /\ mir = 1
    /\ inodes_read = 0 /\ fragments_read = 0
    /\ compressed_data_blocks = <<>> /\ compressed_metadata_blocks = <<>>
    /\ frag_step_blocks = <<>>
    /\ dd_i = 0 /\ dd_j = 0
    /\ handed = <<>>
    \* the source image has been collected, the target image is at hand
    /\ pc = "collect_target" /\ ENABLE_LZO = TRUE /\ ENABLE_LZ4 = TRUE /\ c = "lzo"
    /\ c_deleted = FALSE /\ block_size = 1
    /\ sb_source = [s_magic |-> "hsqs", version |-> <<4, 0>>, block_size |-> 1,
                    compression |-> "lzo"]
    /\ sb_target = NoSuperblock
    /\ source_blocks \in DriverLists /\ target_blocks = <<>>
    /\ got_source = source_blocks /\ got_target = <<>>
    /\ codec_log = <<>>
    /\ source_temp = <<>> /\ target_temp = <<>> /\ patch_out = <<>>
    /\ child = NoChild /\ diag = NoDiag /\ error = NoError
    /\ exit_status = "running"
    /\ IdleX /\ IdleI

GFrame == UNCHANGED <<pc, ENABLE_LZO, ENABLE_LZ4, c_deleted, sb_source,
                      source_blocks, target_blocks, got_source, got_target,
                      codec_log, source_temp, target_temp, patch_out, child, diag,
                      error, exit_status, xvars, ivars, disk>>

\* read & verify superblock, the block size, the codec, c->setup()
GSuperblock ==
    /\ gpc = "superblock"
    /\ \E sb \in SuperBlocks :
        LET r == ReadSuperblock(sb, c, block_size, ENABLE_LZO, ENABLE_LZ4)
        IN  /\ sb_target' = sb
            /\ c' = r.c
            /\ block_size' = r.block_size
            /\ gpc' = IF r.what = "none" THEN "inodes" ELSE "thrown"
    /\ UNCHANGED <<ir_block_num, dir_blocks, fr_block_num, mir, inodes_read,
                   fragments_read, compressed_data_blocks,
                   compressed_metadata_blocks, frag_step_blocks, dd_i, dd_j, handed>>
    /\ GFrame

\* one turn of the inode loop
GReadInode ==
    /\ gpc = "inodes"
    /\ inodes_read < MaxInodes
    /\ \E in \in CollectInodes :
        LET r == ReadInode(in)
        IN  /\ compressed_data_blocks' = compressed_data_blocks \o r.blocks
            /\ gpc' = IF r.aborted THEN "assert" ELSE "inodes"
    /\ inodes_read' = inodes_read + 1
    /\ UNCHANGED <<ir_block_num, dir_blocks, fr_block_num, mir, fragments_read,
                   compressed_metadata_blocks, frag_step_blocks, dd_i, dd_j, handed,
                   sb_target, c, block_size>>
    /\ GFrame

\* i == sb.inodes: block_num = ir.block_num(), then the "record inode blocks"
\* loop over mir, built at sb.inode_table_start
GHashInodeBlocks ==
    /\ gpc = "inodes"
    /\ \E n \in 1..Len(disk.blocks) :
        /\ ir_block_num' = n
        /\ compressed_metadata_blocks' = HashMetadataBlocks(disk, mir, n)
        /\ mir' = mir + n
    /\ gpc' = "fragments"
    /\ UNCHANGED <<dir_blocks, fr_block_num, inodes_read, fragments_read,
                   compressed_data_blocks, frag_step_blocks, dd_i, dd_j, handed,
                   sb_target, c, block_size>>
    /\ GFrame

\* one turn of the fragment loop
GReadFragment ==
    /\ gpc = "fragments"
    /\ fragments_read < MaxFragments
    /\ \E fe \in FragmentEntries :
        IF fe.size = 0
        THEN /\ gpc' = "assert"
             /\ UNCHANGED compressed_data_blocks
        ELSE /\ gpc' = "fragments"
             /\ compressed_data_blocks' =
                   IF ~IsUncompressed(fe.size)
                   THEN Append(compressed_data_blocks,
                               compressed_block(fe.start_block, fe.size,
                                                Indeterminate, Indeterminate))
                   ELSE compressed_data_blocks
    /\ fragments_read' = fragments_read + 1
    /\ UNCHANGED <<ir_block_num, dir_blocks, fr_block_num, mir, inodes_read,
                   compressed_metadata_blocks, frag_step_blocks, dd_i, dd_j, handed,
                   sb_target, c, block_size>>
    /\ GFrame

\* i == sb.fragments: block_num = fr.block_num(), MetadataBlockReader mfr built
\* at fr.start_offset, then the "record fragment table" loop.  The image fixes
\* where the fragment table lies (after d directory blocks) and how many blocks
\* it has; a read past the metadata area throws.
GHashFragmentBlocks ==
    /\ gpc = "fragments"
    /\ \E d \in 0..Len(disk.blocks), n \in 0..Len(disk.blocks) :
        /\ ir_block_num + d + n <= Len(disk.blocks)
        /\ (n = 0) <=> (fragments_read = 0)
        /\ dir_blocks' = d
        /\ fr_block_num' = n
        /\ LET from == FragmentLoopStart(mir, ir_block_num + d + 1)
           IN  IF from + n - 1 > Len(disk.blocks)
               THEN /\ gpc' = "thrown"
                    /\ UNCHANGED <<frag_step_blocks, compressed_metadata_blocks, mir>>
               ELSE /\ frag_step_blocks' = HashMetadataBlocks(disk, from, n)
                    /\ compressed_metadata_blocks' =
                          compressed_metadata_blocks \o HashMetadataBlocks(disk, from, n)
                    /\ mir' = IF from = mir THEN mir + n ELSE mir
                    /\ gpc' = "sort"
    /\ UNCHANGED <<ir_block_num, inodes_read, fragments_read,
                   compressed_data_blocks, dd_i, dd_j, handed,
                   sb_target, c, block_size>>
    /\ GFrame

\* compressed_data_blocks.sort(sort_by_offset); i = begin(), j = end()
GSort ==
    /\ gpc = "sort"
    /\ compressed_data_blocks' = SortByOffset(compressed_data_blocks)
    /\ dd_i' = 1
    /\ dd_j' = 0
    /\ gpc' = "dedup"
    /\ UNCHANGED <<ir_block_num, dir_blocks, fr_block_num, mir, inodes_read,
                   fragments_read, compressed_metadata_blocks, frag_step_blocks,
                   handed, sb_target, c, block_size>>
    /\ GFrame

\* Whether the test (*i).offset == (*j).offset may come out true, and whether
\* the assertion on the lengths may then hold.  While j is end() (dd_j = 0) the
\* loop reads through the end iterator: both answers can be had.
MayBeDuplicate(l, i, j) == IF j = 0 THEN BOOLEAN ELSE {l[i].offset = l[j].offset}
MayHaveSameLength(l, i, j) == IF j = 0 THEN BOOLEAN ELSE {l[i].length = l[j].length}

\* one turn of the "record the checksums and perform initial deduplication" loop
GDedupStep ==
    /\ gpc = "dedup"
    /\ dd_i <= Len(compressed_data_blocks)
    /\ \E dup \in MayBeDuplicate(compressed_data_blocks, dd_i, dd_j),
          same \in MayHaveSameLength(compressed_data_blocks, dd_i, dd_j) :
        IF dup /\ ~same
        THEN /\ gpc' = "assert"
             /\ UNCHANGED <<compressed_data_blocks, dd_i, dd_j>>
        ELSE IF dup
        THEN /\ compressed_data_blocks' = Erase(compressed_data_blocks, dd_i, dd_i + 1)
             /\ UNCHANGED <<gpc, dd_i, dd_j>>
        ELSE /\ compressed_data_blocks' =
                   [compressed_data_blocks EXCEPT ![dd_i].hash =
                       murmurhash3(compressed_data_blocks[dd_i].offset,
                                   compressed_data_blocks[dd_i].length)]
             /\ dd_j' = dd_i
             /\ dd_i' = dd_i + 1
             /\ UNCHANGED gpc
    /\ UNCHANGED <<ir_block_num, dir_blocks, fr_block_num, mir, inodes_read,
                   fragments_read, compressed_metadata_blocks, frag_step_blocks,
                   handed, sb_target, c, block_size>>
    /\ GFrame

\* the splice of the metadata descriptors and the return; then main(): the
\* deduplication against the source's list and the sort by offset
GReturn ==
    /\ gpc = "dedup"
    /\ dd_i > Len(compressed_data_blocks)
    /\ compressed_data_blocks' = compressed_data_blocks \o compressed_metadata_blocks
    /\ compressed_metadata_blocks' = <<>>
    /\ handed' = SortByOffset(
                    DedupWalk(SortByLenHash(source_blocks),
                              SortByLenHash(compressed_data_blocks
                                            \o compressed_metadata_blocks), 1, 1)[2])
    /\ gpc' = "handed"
    /\ UNCHANGED <<ir_block_num, dir_blocks, fr_block_num, mir, inodes_read,
                   fragments_read, frag_step_blocks, dd_i, dd_j,
                   sb_target, c, block_size>>
    /\ GFrame

\* write_unpacked_file on the list: the assertions of its first loop
GExpand ==
    /\ gpc = "handed"
    /\ gpc' = IF ExpanderAssertHolds(handed, 1, 0) THEN "expanding" ELSE "assert_expander"
    /\ UNCHANGED <<ir_block_num, dir_blocks, fr_block_num, mir, inodes_read,
                   fragments_read, compressed_data_blocks, compressed_metadata_blocks,
                   frag_step_blocks, dd_i, dd_j, handed, sb_target, c, block_size>>
    /\ GFrame

CollectNext ==
    \/ GSuperblock
    \/ GReadInode
    \/ GHashInodeBlocks
    \/ GReadFragment
    \/ GHashFragmentBlocks
    \/ GSort
    \/ GDedupStep
    \/ GReturn
    \/ GExpand

SpecCollect == CollectInit /\ [][CollectNext]_vars

\* C3: the list handed to write_unpacked_file is strictly ascending in offset
\* and its spans [offset, offset+length) are pairwise disjoint, so that no two
\* descriptors share an offset and the expander's assertion never fails.
C3_AscendingDisjoint ==
    /\ gpc \in {"handed", "expanding", "assert_expander"} =>
          /\ \A i, j \in 1..Len(handed) : i < j => handed[i].offset < handed[j].offset
          /\ \A i, j \in 1..Len(handed) :
                i < j => handed[i].offset + handed[i].length <= handed[j].offset
    /\ gpc # "assert_expander"

\* the compressed blocks among the fr.block_num() blocks of the fragment table
FragmentTableBlocks ==
    HashMetadataBlocks(disk, ir_block_num + dir_blocks + 1, fr_block_num)

\* C9: the descriptors recorded in the step after the fragment walk are exactly
\* the compressed blocks among the fr.block_num() metadata blocks of the
\* fragment table, read from fr.start_offset; no block of another region is
\* recorded by this step.
C9_FragmentTableBlocks ==
    gpc \in {"sort", "dedup", "handed", "expanding", "assert_expander"} =>
        frag_step_blocks = FragmentTableBlocks

====
